---- MODULE Spec2Model ----
(***************************************************************************)
(* doson: the DataValue type, its printer (to_string), its parser          *)
(* (ValueParser, a nom grammar) with the b:<base64>: envelope of           *)
(* DataValue::from, and the derived weight / ordering / equality.          *)
(*                                                                         *)
(* A text is a sequence of Unicode scalar values; a byte string is a       *)
(* sequence of 0..255.  A &str index of the Rust code is a byte index      *)
(* into the UTF-8 encoding of the text.                                    *)
(***************************************************************************)
EXTENDS Integers, Sequences, FiniteSets, TLC

VARIABLES
  phase,      \* the step the caller is at
  data,       \* the text handed to DataValue::from
  outcome,    \* what from(data) gave
  wrapped,    \* what from("b:" + base64(data) + ":") gave
  value,      \* a DataValue built by the caller
  printed,    \* value.to_string(), or the returned value's to_string()
  reparsed,   \* what from(printed) gave
  remainder,  \* what ValueParser::parse(printed) left unconsumed
  reprinted,  \* the reparsed value's to_string()
  va, vb, vc, \* the values weighed and compared
  wa,         \* va.weight()
  ab, bc, ac, ba  \* va.cmp(vb), vb.cmp(vc), va.cmp(vc), vb.cmp(va)

vars == <<phase, data, outcome, wrapped, value, printed, reparsed, remainder,
          reprinted, va, vb, vc, wa, ab, bc, ac, ba>>

(***************************************************************************)
(* Characters of the literals the code and the inputs are written with.    *)
(***************************************************************************)
Code ==
  "\"" :> 34 @@ "\\" :> 92 @@ "/" :> 47 @@ "[" :> 91 @@ "]" :> 93 @@
  "{" :> 123 @@ "}" :> 125 @@ "(" :> 40 @@ ")" :> 41 @@ "," :> 44 @@
  ":" :> 58 @@ "!" :> 33 @@ "=" :> 61 @@ "+" :> 43 @@ "-" :> 45 @@
  "." :> 46 @@ " " :> 32 @@ "TAB" :> 9 @@ "LF" :> 10 @@ "CR" :> 13 @@
  "0" :> 48 @@ "1" :> 49 @@ "2" :> 50 @@ "3" :> 51 @@ "4" :> 52 @@
  "5" :> 53 @@ "6" :> 54 @@ "7" :> 55 @@ "8" :> 56 @@ "9" :> 57 @@
  "a" :> 97 @@ "b" :> 98 @@ "c" :> 99 @@ "d" :> 100 @@ "e" :> 101 @@
  "f" :> 102 @@ "g" :> 103 @@ "i" :> 105 @@ "l" :> 108 @@ "n" :> 110 @@
  "o" :> 111 @@ "r" :> 114 @@ "s" :> 115 @@ "t" :> 116 @@ "u" :> 117 @@
  "y" :> 121 @@ "x" :> 120 @@
  "A" :> 65 @@ "E" :> 69 @@ "F" :> 70 @@ "N" :> 78 @@ "Q" :> 81 @@
  "T" :> 84 @@ "Z" :> 90 @@ "e-acute" :> 233

\* The text written with the characters cs (a tuple of character names).
T(cs) == [i \in 1..Len(cs) |-> Code[cs[i]]]

RECURSIVE Flatten(_)
Flatten(ss) == IF Len(ss) = 0 THEN <<>> ELSE Head(ss) \o Flatten(Tail(ss))

Drop(s, n) == SubSeq(s, n + 1, Len(s))

IsDigit(c) == c >= 48 /\ c <= 57
IsAsciiAlpha(c) == (c >= 65 /\ c <= 90) \/ (c >= 97 /\ c <= 122)
IsAlphanumeric(c) == IsAsciiAlpha(c) \/ IsDigit(c)
IsHexDigit(c) == IsDigit(c) \/ (c >= 65 /\ c <= 70) \/ (c >= 97 /\ c <= 102)
IsAsciiControl(c) == c < 32 \/ c = 127
IsMultispace(c) == c \in {32, 9, 10, 13}
ToAsciiLower(c) == IF c >= 65 /\ c <= 90 THEN c + 32 ELSE c

(***************************************************************************)
(* UTF-8: str::len / as_bytes, str::is_char_boundary, String::from_utf8.   *)
(***************************************************************************)
Utf8EncodeChar(c) ==
  IF c < 128 THEN <<c>>
  ELSE IF c < 2048 THEN <<192 + (c \div 64), 128 + (c % 64)>>
  ELSE IF c < 65536
       THEN <<224 + (c \div 4096), 128 + ((c \div 64) % 64), 128 + (c % 64)>>
  ELSE <<240 + (c \div 262144), 128 + ((c \div 4096) % 64),
         128 + ((c \div 64) % 64), 128 + (c % 64)>>

Utf8Encode(text) == Flatten([i \in 1..Len(text) |-> Utf8EncodeChar(text[i])])

IsContinuation(b) == b >= 128 /\ b <= 191

\* Byte index i (0-based, as in Rust) is a char boundary of the string
\* whose bytes are bs.
IsCharBoundary(bs, i) ==
  \/ i = 0
  \/ i = Len(bs)
  \/ (i < Len(bs) /\ ~IsContinuation(bs[i + 1]))

Utf8Fail == [ok |-> FALSE, text |-> <<>>]

\* The length of the sequence the lead byte b opens, 0 for no lead byte.
Utf8Width(b) ==
  IF b < 128 THEN 1
  ELSE IF b >= 194 /\ b <= 223 THEN 2
  ELSE IF b >= 224 /\ b <= 239 THEN 3
  ELSE IF b >= 240 /\ b <= 244 THEN 4
  ELSE 0

\* The scalar value of the n bytes at the head of bs.
Utf8Scalar(bs, n) ==
  IF n = 1 THEN bs[1]
  ELSE IF n = 2 THEN (bs[1] - 192) * 64 + (bs[2] - 128)
  ELSE IF n = 3 THEN (bs[1] - 224) * 4096 + (bs[2] - 128) * 64 + (bs[3] - 128)
  ELSE (bs[1] - 240) * 262144 + (bs[2] - 128) * 4096
       + (bs[3] - 128) * 64 + (bs[4] - 128)

Utf8WellFormed(n, cp) ==
  /\ (n = 3 => cp >= 2048 /\ ~(cp >= 55296 /\ cp <= 57343))
  /\ (n = 4 => cp >= 65536 /\ cp <= 1114111)

Utf8Cons(cp, rest) ==
  IF rest.ok THEN [ok |-> TRUE, text |-> <<cp>> \o rest.text] ELSE Utf8Fail

\* String::from_utf8
RECURSIVE Utf8Decode(_)
Utf8Decode(bs) ==
  IF Len(bs) = 0 THEN [ok |-> TRUE, text |-> <<>>]
  ELSE IF Utf8Width(bs[1]) = 0 \/ Len(bs) < Utf8Width(bs[1]) THEN Utf8Fail
  ELSE IF \E k \in 2..Utf8Width(bs[1]) : ~IsContinuation(bs[k]) THEN Utf8Fail
  ELSE IF ~Utf8WellFormed(Utf8Width(bs[1]), Utf8Scalar(bs, Utf8Width(bs[1])))
       THEN Utf8Fail
  ELSE Utf8Cons(Utf8Scalar(bs, Utf8Width(bs[1])),
                Utf8Decode(Drop(bs, Utf8Width(bs[1]))))

(***************************************************************************)
(* base64::encode / base64::decode (standard alphabet).                    *)
(***************************************************************************)
B64Char(v) ==
  IF v < 26 THEN 65 + v
  ELSE IF v < 52 THEN 97 + (v - 26)
  ELSE IF v < 62 THEN 48 + (v - 52)
  ELSE IF v = 62 THEN 43 ELSE 47

\* The 6-bit value of a symbol, -1 for a byte outside the alphabet.
B64Val(c) ==
  IF c >= 65 /\ c <= 90 THEN c - 65
  ELSE IF c >= 97 /\ c <= 122 THEN c - 97 + 26
  ELSE IF c >= 48 /\ c <= 57 THEN c - 48 + 52
  ELSE IF c = 43 THEN 62
  ELSE IF c = 47 THEN 63
  ELSE -1

RECURSIVE Base64Encode(_)
Base64Encode(bytes) ==
  IF Len(bytes) = 0 THEN <<>>
  ELSE IF Len(bytes) = 1
       THEN <<B64Char(bytes[1] \div 4), B64Char((bytes[1] % 4) * 16), 61, 61>>
  ELSE IF Len(bytes) = 2
       THEN <<B64Char(bytes[1] \div 4),
              B64Char((bytes[1] % 4) * 16 + (bytes[2] \div 16)),
              B64Char((bytes[2] % 16) * 4), 61>>
  ELSE <<B64Char(bytes[1] \div 4),
         B64Char((bytes[1] % 4) * 16 + (bytes[2] \div 16)),
         B64Char((bytes[2] % 16) * 4 + (bytes[3] \div 64)),
         B64Char(bytes[3] % 64)>> \o Base64Encode(Drop(bytes, 3))

RECURSIVE PadCount(_)
PadCount(s) ==
  IF Len(s) > 0 /\ s[Len(s)] = 61 THEN 1 + PadCount(SubSeq(s, 1, Len(s) - 1))
  ELSE 0

RECURSIVE B64DecodeSymbols(_)
B64DecodeSymbols(vs) ==
  IF Len(vs) < 2 THEN <<>>
  ELSE IF Len(vs) = 2 THEN <<vs[1] * 4 + (vs[2] \div 16)>>
  ELSE IF Len(vs) = 3
       THEN <<vs[1] * 4 + (vs[2] \div 16), (vs[2] % 16) * 16 + (vs[3] \div 4)>>
  ELSE <<vs[1] * 4 + (vs[2] \div 16), (vs[2] % 16) * 16 + (vs[3] \div 4),
         (vs[3] % 4) * 64 + vs[4]>> \o B64DecodeSymbols(Drop(vs, 4))

\* base64::decode: padding is accepted where a quad may end and is not
\* required; a lone trailing symbol, a byte outside the alphabet, and a
\* last symbol with bits that reach no output byte are errors.
Base64Decode(s) ==
  LET pads == PadCount(s)
      body == SubSeq(s, 1, Len(s) - pads)
      vs == [i \in 1..Len(body) |-> B64Val(body[i])]
      r == Len(body) % 4
      valid ==
        /\ \A i \in 1..Len(body) : vs[i] >= 0
        /\ Len(s) % 4 # 1
        /\ r # 1
        /\ \A i \in Len(body)..(Len(s) - 1) : i % 4 >= 2
        /\ (r = 2 => vs[Len(body)] % 16 = 0)
        /\ (r = 3 => vs[Len(body)] % 4 = 0)
  IN IF valid THEN [ok |-> TRUE, bytes |-> B64DecodeSymbols(vs)]
     ELSE [ok |-> FALSE, bytes |-> <<>>]

(***************************************************************************)
(* f64.  A finite payload is the decimal  (-1)^neg * m * 10^e  with m not  *)
(* divisible by 10 (m = 0 has e = 0): the digits Display prints and the    *)
(* digits a literal is read from.  f64::MAX, the infinities and NaN are    *)
(* symbolic; FAdd and FCompare follow IEEE-754 on them.                    *)
(***************************************************************************)
Fin(neg, m, e) == [k |-> "fin", neg |-> neg, m |-> m, e |-> e]
F64Max(neg) == [k |-> "max", neg |-> neg, m |-> 0, e |-> 0]
F64Inf(neg) == [k |-> "inf", neg |-> neg, m |-> 0, e |-> 0]
F64NaN == [k |-> "nan", neg |-> FALSE, m |-> 0, e |-> 0]
Zero == Fin(FALSE, 0, 0)
Int2F(n) == IF n < 0 THEN Fin(TRUE, -n, 0) ELSE Fin(FALSE, n, 0)

RECURSIVE Pow10(_)
Pow10(n) == IF n <= 0 THEN 1 ELSE 10 * Pow10(n - 1)

RECURSIVE Normalize(_, _, _)
Normalize(neg, m, e) ==
  IF m = 0 THEN Fin(neg, 0, 0)
  ELSE IF m % 10 = 0 THEN Normalize(neg, m \div 10, e + 1)
  ELSE Fin(neg, m, e)

RECURSIVE Digits(_)
Digits(n) == IF n < 10 THEN <<48 + n>> ELSE Digits(n \div 10) \o <<48 + (n % 10)>>

RECURSIVE DigitsValue(_)
DigitsValue(ds) ==
  IF Len(ds) = 0 THEN 0
  ELSE DigitsValue(SubSeq(ds, 1, Len(ds) - 1)) * 10 + (ds[Len(ds)] - 48)

Zeros(n) == [i \in 1..n |-> 48]

\* f64::MAX as Display prints it: 17976931348623157 and 292 zeros.
MaxDigits ==
  <<49, 55, 57, 55, 54, 57, 51, 49, 51, 52, 56, 54, 50, 51, 49, 53, 55>>
  \o Zeros(292)

\* <f64 as Display>::fmt: no exponent, no trailing ".0", "-0" for -0.0.
F64ToString(n) ==
  LET sign == IF n.neg THEN <<45>> ELSE <<>>
  IN IF n.k = "nan" THEN T(<<"N", "a", "N">>)
     ELSE IF n.k = "inf" THEN sign \o T(<<"i", "n", "f">>)
     ELSE IF n.k = "max" THEN sign \o MaxDigits
     ELSE LET ds == Digits(n.m)
          IN IF n.e >= 0 THEN sign \o ds \o Zeros(n.e)
             ELSE IF Len(ds) > -n.e
                  THEN sign \o SubSeq(ds, 1, Len(ds) + n.e) \o <<46>>
                       \o SubSeq(ds, Len(ds) + n.e + 1, Len(ds))
             ELSE sign \o <<48, 46>> \o Zeros(-n.e - Len(ds)) \o ds

\* a + b in f64, on the values the model holds.
FAdd(a, b) ==
  IF a.k = "nan" \/ b.k = "nan" THEN F64NaN
  ELSE IF a.k = "inf"
       THEN IF b.k = "inf" /\ b.neg # a.neg THEN F64NaN ELSE a
  ELSE IF b.k = "inf" THEN b
  ELSE IF a.k = "max"
       THEN IF b.k = "max"
            THEN IF a.neg = b.neg THEN F64Inf(a.neg) ELSE Zero
            ELSE a
  ELSE IF b.k = "max" THEN b
  ELSE LET e == IF a.e < b.e THEN a.e ELSE b.e
           x == (IF a.neg THEN -1 ELSE 1) * a.m * Pow10(a.e - e)
           y == (IF b.neg THEN -1 ELSE 1) * b.m * Pow10(b.e - e)
           s == x + y
       IN IF s = 0 THEN Fin(a.neg /\ b.neg, 0, 0)
          ELSE IF s < 0 THEN Normalize(TRUE, -s, e)
          ELSE Normalize(FALSE, s, e)

\* The rank of a non-NaN value among -inf < -MAX < finite < MAX < inf.
FRank(a) ==
  IF a.k = "inf" THEN (IF a.neg THEN -2 ELSE 2)
  ELSE IF a.k = "max" THEN (IF a.neg THEN -1 ELSE 1)
  ELSE 0

\* f64::partial_cmp: "None" when either side is NaN.
FCompare(a, b) ==
  IF a.k = "nan" \/ b.k = "nan" THEN "None"
  ELSE IF FRank(a) # FRank(b)
       THEN (IF FRank(a) < FRank(b) THEN "Less" ELSE "Greater")
  ELSE IF a.k # "fin" THEN "Equal"
  ELSE LET e == IF a.e < b.e THEN a.e ELSE b.e
           x == (IF a.neg THEN -1 ELSE 1) * a.m * Pow10(a.e - e)
           y == (IF b.neg THEN -1 ELSE 1) * b.m * Pow10(b.e - e)
       IN IF x < y THEN "Less" ELSE IF x > y THEN "Greater" ELSE "Equal"

\* a == b on f64 (NaN equals nothing, -0.0 equals 0.0).
FEq(a, b) == FCompare(a, b) = "Equal"

(***************************************************************************)
(* enum DataValue.  A Dict holds its entries <<key, value>> in the order   *)
(* its HashMap iterates them; a Binary holds the bytes of its Vec<u8>.     *)
(***************************************************************************)
NoneV == [tag |-> "None"]
StringV(s) == [tag |-> "String", s |-> s]
NumberV(n) == [tag |-> "Number", n |-> n]
BooleanV(b) == [tag |-> "Boolean", b |-> b]
ListV(l) == [tag |-> "List", l |-> l]
DictV(d) == [tag |-> "Dict", d |-> d]
TupleV(x, y) == [tag |-> "Tuple", t0 |-> x, t1 |-> y]
BinaryV(bytes) == [tag |-> "Binary", data |-> bytes]

\* Binary::to_string
BinaryToString(bytes) ==
  T(<<"b", "i", "n", "a", "r", "y", "!", "(">>) \o Base64Encode(bytes) \o <<41>>

\* StripLast that strips nothing.
KeepLast(res) == res

\* res[..res.len() - 1] when res.len() > 1: the trailing comma goes.
StripLast(res) == IF Len(res) > 1 THEN SubSeq(res, 1, Len(res) - 1) ELSE res

RECURSIVE to_string(_)
to_string(v) ==
  CASE v.tag = "None" -> T(<<"n", "o", "n", "e">>)
    [] v.tag = "String" -> <<34>> \o v.s \o <<34>>
    [] v.tag = "Number" -> F64ToString(v.n)
    [] v.tag = "Boolean" -> IF v.b THEN T(<<"t", "r", "u", "e">>)
                            ELSE T(<<"f", "a", "l", "s", "e">>)
    [] v.tag = "List" ->
         StripLast(<<91>> \o Flatten([i \in 1..Len(v.l) |->
                                        to_string(v.l[i]) \o <<44>>])) \o <<93>>
    [] v.tag = "Dict" ->
         StripLast(<<123>> \o Flatten([i \in 1..Len(v.d) |->
             <<34>> \o v.d[i][1] \o <<34, 58>> \o to_string(v.d[i][2]) \o <<44>>]))
         \o <<125>>
    [] v.tag = "Tuple" ->
         <<40>> \o to_string(v.t0) \o <<44>> \o to_string(v.t1) \o <<41>>
    [] v.tag = "Binary" -> BinaryToString(v.data)

\* PartialEq for DataValue
Eq(x, y) == to_string(x) = to_string(y)

(***************************************************************************)
(* nom.  A parser is applied to the text t at position i (1-based) and     *)
(* gives [r, i, v]: r = "ok" with the next position and the output, "err"  *)
(* (Err::Error, which alt, opt and separated_list0 recover from) or "fail" *)
(* (Err::Failure, raised by cut, which they pass on).                      *)
(***************************************************************************)
Ok(i, v) == [r |-> "ok", i |-> i, v |-> v]
Error == [r |-> "err", i |-> 0, v |-> <<>>]
Failure == [r |-> "fail", i |-> 0, v |-> <<>>]

At(t, i) == IF i >= 1 /\ i <= Len(t) THEN t[i] ELSE -1

\* tag(lit): the output is the matched slice of the input.
Tag(t, i, lit) ==
  IF i + Len(lit) - 1 <= Len(t) /\ SubSeq(t, i, i + Len(lit) - 1) = lit
  THEN Ok(i + Len(lit), lit)
  ELSE Error

TagNoCase(t, i, lit) ==
  IF /\ i + Len(lit) - 1 <= Len(t)
     /\ \A k \in 1..Len(lit) : ToAsciiLower(t[i + k - 1]) = ToAsciiLower(lit[k])
  THEN Ok(i + Len(lit), SubSeq(t, i, i + Len(lit) - 1))
  ELSE Error

\* multispace0: the position after the spaces, tabs and line ends at i.
RECURSIVE Multispace0(_, _)
Multispace0(t, i) ==
  IF i <= Len(t) /\ IsMultispace(t[i]) THEN Multispace0(t, i + 1) ELSE i

RECURSIVE DigitRun(_, _)
DigitRun(t, i) == IF i <= Len(t) /\ IsDigit(t[i]) THEN DigitRun(t, i + 1) ELSE i

RECURSIVE AlnumRun(_, _)
AlnumRun(t, i) ==
  IF i <= Len(t) /\ IsAlphanumeric(t[i]) THEN AlnumRun(t, i + 1) ELSE i

\* p, and q where p gave Err::Error: one step of alt.
OrElse(p, q) == IF p.r = "err" THEN q ELSE p

\* The digits of a literal, read as an f64.
Literal(neg, intDigits, fracDigits, exp) ==
  Normalize(neg, DigitsValue(intDigits \o fracDigits), exp - Len(fracDigits))

\* opt(tuple((one of e E, opt(sign), cut(digit1)))) at position j, after a
\* mantissa with the digits given.
Exponent(t, j, neg, intDigits, fracDigits, expStart) ==
  IF At(t, j) \notin {101, 69} THEN Ok(j, Literal(neg, intDigits, fracDigits, 0))
  ELSE IF DigitRun(t, expStart) = expStart THEN Failure
  ELSE Ok(DigitRun(t, expStart),
          Literal(neg, intDigits, fracDigits,
                  (IF At(t, j + 1) = 45 THEN -1 ELSE 1)
                    * DigitsValue(SubSeq(t, expStart, DigitRun(t, expStart) - 1))))

\* After the digits s1..intEnd-1: an optional "." and optional digits.
Fraction(t, neg, s1, intEnd, fracEnd) ==
  Exponent(t, fracEnd, neg, SubSeq(t, s1, intEnd - 1),
           SubSeq(t, intEnd + 1, fracEnd - 1),
           IF At(t, fracEnd + 1) \in {43, 45} THEN fracEnd + 2 ELSE fracEnd + 1)

\* The mantissa from s1: digits with an optional fraction, or "." digits.
Mantissa(t, neg, s1, intEnd) ==
  IF intEnd > s1
  THEN Fraction(t, neg, s1, intEnd,
                IF At(t, intEnd) = 46 THEN DigitRun(t, intEnd + 1) ELSE intEnd)
  ELSE IF At(t, s1) = 46 /\ DigitRun(t, s1 + 1) > s1 + 1
       THEN Fraction(t, neg, s1, s1, DigitRun(t, s1 + 1))
  ELSE Error

\* number::complete::double: sign, mantissa, and an exponent whose digits
\* are cut.
SignedMantissa(t, neg, s1) == Mantissa(t, neg, s1, DigitRun(t, s1))
parse_number(t, i) ==
  SignedMantissa(t, At(t, i) = 45, IF At(t, i) \in {43, 45} THEN i + 1 ELSE i)

AsBool(p, b) == IF p.r = "ok" THEN Ok(p.i, b) ELSE p
parse_boolean(t, i) ==
  OrElse(AsBool(TagNoCase(t, i, T(<<"t", "r", "u", "e">>)), TRUE),
         AsBool(TagNoCase(t, i, T(<<"f", "a", "l", "s", "e">>)), FALSE))

\* take_till1: at least one character up to a backslash, a quote or an
\* ASCII control character.
RECURSIVE NormalRun(_, _)
NormalRun(t, i) ==
  IF i <= Len(t) /\ ~(t[i] = 92 \/ t[i] = 34 \/ IsAsciiControl(t[i]))
  THEN NormalRun(t, i + 1)
  ELSE i

normal(t, i) == IF NormalRun(t, i) > i THEN Ok(NormalRun(t, i), <<>>) ELSE Error

\* peek(tag("u")) then exactly five characters that are hex digits or u.
parse_hex(t, i) ==
  IF /\ At(t, i) = 117
     /\ i + 4 <= Len(t)
     /\ \A k \in i..(i + 4) : IsHexDigit(t[k]) \/ t[k] = 117
  THEN Ok(i + 5, <<>>)
  ELSE Error

escapable(t, i) ==
  IF At(t, i) \in {34, 92, 47, 98, 102, 110, 114, 116} THEN Ok(i + 1, <<>>)
  ELSE parse_hex(t, i)

\* escaped(normal, '\\', escapable) from position start, now at i, where
\* normal gave n: the output is the slice it went over.
RECURSIVE EscapedLoop(_, _, _)
RECURSIVE EscapedStep(_, _, _, _)
RECURSIVE EscapedChar(_, _, _)
EscapedChar(t, start, e) ==
  IF e.r # "ok" THEN Error
  ELSE IF e.i > Len(t) THEN Ok(Len(t) + 1, SubSeq(t, start, Len(t)))
  ELSE EscapedLoop(t, start, e.i)

EscapedStep(t, start, i, n) ==
  IF n.r = "ok"
  THEN IF n.i > Len(t) THEN Ok(Len(t) + 1, SubSeq(t, start, Len(t)))
       ELSE EscapedLoop(t, start, n.i)
  ELSE IF t[i] = 92
       THEN IF i >= Len(t) THEN Error
            ELSE EscapedChar(t, start, escapable(t, i + 1))
  ELSE IF i = start THEN Error
  ELSE Ok(i, SubSeq(t, start, i - 1))

EscapedLoop(t, start, i) ==
  IF i > Len(t) THEN Ok(Len(t) + 1, SubSeq(t, start, Len(t)))
  ELSE EscapedStep(t, start, i, normal(t, i))

string_format(t, i) == EscapedLoop(t, i, i)

\* delimited(.., body, tag(c)): body's output once the character c follows.
Closed(t, body, c) ==
  IF body.r # "ok" THEN body
  ELSE IF At(t, body.i) # c THEN Error
  ELSE Ok(body.i + 1, body.v)

\* alt((tag("\"\""), delimited(tag("\""), string_format, tag("\"")))): the
\* first alternative gives what tag matched, the second the body.
parse_string(t, i) ==
  OrElse(Tag(t, i, <<34, 34>>),
         IF At(t, i) = 34 THEN Closed(t, string_format(t, i + 1), 34) ELSE Error)

\* Binary::from_b64(..).unwrap_or(Binary::build(vec![]))
from_b64_or_empty(s) ==
  IF Base64Decode(s).ok THEN Base64Decode(s).bytes ELSE <<>>

\* Decoded with a failed decoding an error of the parser, no empty blob.
DecodedOrError(p) ==
  IF p.r = "ok" /\ Base64Decode(p.v).ok THEN Ok(p.i, Base64Decode(p.v).bytes)
  ELSE Error

Decoded(p) == IF p.r = "ok" THEN Ok(p.i, from_b64_or_empty(p.v)) ELSE p

\* alphanumeric0 from position i.
alphanumeric0(t, i) == Ok(AlnumRun(t, i), SubSeq(t, i, AlnumRun(t, i) - 1))

\* alt((tag("binary!()"), delimited(tag("binary!("), alphanumeric0, tag(")"))))
\* and the decoding of what it gave.
parse_binary(t, i) ==
  Decoded(OrElse(Tag(t, i, T(<<"b", "i", "n", "a", "r", "y", "!", "(", ")">>)),
                 IF Tag(t, i, T(<<"b", "i", "n", "a", "r", "y", "!", "(">>)).r = "ok"
                 THEN Closed(t, alphanumeric0(t, i + 8), 41)
                 ELSE Error))

\* Iterator::collect into a HashMap: a later entry of a key replaces the
\* earlier one.
RECURSIVE Collect(_, _)
Collect(pairs, acc) ==
  IF Len(pairs) = 0 THEN acc
  ELSE IF \E k \in 1..Len(acc) : acc[k][1] = Head(pairs)[1]
       THEN Collect(Tail(pairs),
                    [k \in 1..Len(acc) |->
                       IF acc[k][1] = Head(pairs)[1] THEN Head(pairs) ELSE acc[k]])
  ELSE Collect(Tail(pairs), Append(acc, Head(pairs)))

RemoveAt(s, k) == SubSeq(s, 1, k - 1) \o SubSeq(s, k + 1, Len(s))

\* The order a HashMap built with hasher state sd iterates its entries in:
\* sd picks one of the permutations.
RECURSIVE IterationOrder(_, _)
IterationOrder(entries, sd) ==
  IF Len(entries) = 0 THEN <<>>
  ELSE <<entries[(sd % Len(entries)) + 1]>>
       \o IterationOrder(RemoveAt(entries, (sd % Len(entries)) + 1),
                         sd \div Len(entries))

Collected(p, sd) ==
  IF p.r = "ok" THEN Ok(p.i, IterationOrder(Collect(p.v, <<>>), sd)) ELSE p

\* p's output once the spaces after it are skipped.
TrailingSpace(t, p) == IF p.r = "ok" THEN Ok(Multispace0(t, p.i), p.v) ELSE p

\* map(p, DataValue::X)
AsNumber(p) == IF p.r = "ok" THEN Ok(p.i, NumberV(p.v)) ELSE p
AsBoolean(p) == IF p.r = "ok" THEN Ok(p.i, BooleanV(p.v)) ELSE p
AsString(p) == IF p.r = "ok" THEN Ok(p.i, StringV(p.v)) ELSE p
AsList(p) == IF p.r = "ok" THEN Ok(p.i, ListV(p.v)) ELSE p
AsDict(p) == IF p.r = "ok" THEN Ok(p.i, DictV(p.v)) ELSE p
AsTuple(p) == IF p.r = "ok" THEN Ok(p.i, TupleV(p.v[1], p.v[2])) ELSE p
AsBinary(p) == IF p.r = "ok" THEN Ok(p.i, BinaryV(p.v)) ELSE p

RECURSIVE parse(_, _, _)
RECURSIVE Element(_, _, _)
RECURSIVE Entry(_, _, _)
RECURSIVE Item(_, _, _, _)
RECURSIVE SeparatedMore(_, _, _, _, _, _)
RECURSIVE SeparatedRest(_, _, _, _, _)
RECURSIVE separated_list0(_, _, _, _)
RECURSIVE parse_list(_, _, _)
RECURSIVE parse_dict(_, _, _)
RECURSIVE parse_tuple(_, _, _)
RECURSIVE Alternative(_, _, _)

\* delimited(multispace0, ValueParser::parse, multispace0)
Element(t, i, sd) == TrailingSpace(t, parse(t, Multispace0(t, i), sd))

\* separated_pair(delimited(multispace0, parse_string, multispace0),
\*                tag(":"), delimited(multispace0, parse, multispace0))
Paired(key, v) == IF v.r = "ok" THEN Ok(v.i, <<key, v.v>>) ELSE v
EntryValue(t, sd, k) ==
  IF k.r # "ok" THEN Error
  ELSE IF At(t, k.i) # 58 THEN Error
  ELSE Paired(k.v, Element(t, k.i + 1, sd))
Entry(t, i, sd) ==
  EntryValue(t, sd, TrailingSpace(t, parse_string(t, Multispace0(t, i))))

\* The item parser of a list ("element") or of a dict ("entry").
Item(kind, t, i, sd) == IF kind = "element" THEN Element(t, i, sd) ELSE Entry(t, i, sd)

\* separated_list0(tag(","), item): what follows the attempt e at an item,
\* made after position i with acc collected so far.
\* SeparatedMore with an element that is no value kept as a None.
SeparatedMoreKeepingNone(kind, t, i, acc, sd, e) ==
  IF e.r = "ok" THEN SeparatedRest(kind, t, e.i, Append(acc, e.v), sd)
  ELSE IF e.r = "err"
       THEN Ok(i, IF kind = "element" THEN Append(acc, NoneV) ELSE acc)
  ELSE Failure

SeparatedMore(kind, t, i, acc, sd, e) ==
  IF e.r = "ok" THEN SeparatedRest(kind, t, e.i, Append(acc, e.v), sd)
  ELSE IF e.r = "err" THEN Ok(i, acc)
  ELSE Failure

SeparatedRest(kind, t, i, acc, sd) ==
  IF At(t, i) # 44 THEN Ok(i, acc)
  ELSE SeparatedMore(kind, t, i, acc, sd, Item(kind, t, i + 1, sd))

separated_list0(kind, t, i, sd) ==
  SeparatedMore(kind, t, i, <<>>, sd, Item(kind, t, i, sd))

parse_list(t, i, sd) ==
  IF At(t, i) # 91 THEN Error
  ELSE Closed(t, separated_list0("element", t, i + 1, sd), 93)

parse_dict(t, i, sd) ==
  IF At(t, i) # 123 THEN Error
  ELSE Collected(Closed(t, separated_list0("entry", t, i + 1, sd), 125), sd)

TupleSecond(first, second) ==
  IF second.r = "ok" THEN Ok(second.i, <<first.v, second.v>>) ELSE second
TupleRest(t, sd, first) ==
  IF first.r # "ok" THEN first
  ELSE IF At(t, first.i) # 44 THEN Error
  ELSE Closed(t, TupleSecond(first, Element(t, first.i + 1, sd)), 41)
parse_tuple(t, i, sd) ==
  IF At(t, i) # 40 THEN Error
  ELSE TupleRest(t, sd, Element(t, i + 1, sd))

\* The ordered choice of ValueParser::parse at position i.
Alternative(t, i, sd) ==
  OrElse(AsNumber(parse_number(t, i)),
  OrElse(AsBoolean(parse_boolean(t, i)),
  OrElse(AsString(parse_string(t, i)),
  OrElse(AsList(parse_list(t, i, sd)),
  OrElse(AsDict(parse_dict(t, i, sd)),
  OrElse(AsTuple(parse_tuple(t, i, sd)),
         AsBinary(parse_binary(t, i))))))))

\* ValueParser::parse: delimited(multispace0, alt((...)), multispace0)
parse(t, i, sd) == TrailingSpace(t, Alternative(t, Multispace0(t, i), sd))

(***************************************************************************)
(* DataValue::from.  The outcome is the value returned, or a panic: a str  *)
(* slice at a byte index that is not a char boundary aborts the call.      *)
(***************************************************************************)
Returned(v) == [st |-> "ok", v |-> v]
Panic == [st |-> "panic", v |-> NoneV]

\* match ValueParser::parse(&data) { Ok((_, v)) => v, Err(_) => None }
ValueOrNone(p) == IF p.r = "ok" THEN Returned(p.v) ELSE Returned(NoneV)
ParseOrNone(text, sd) == ValueOrNone(parse(text, 1, sd))

\* Unwrap without the base64 decoding.
UnwrapUndecoded(middle) ==
  IF Utf8Decode(middle).ok THEN Utf8Decode(middle).text ELSE <<>>

\* base64::decode(temp).unwrap_or(vec![]) then
\* String::from_utf8(temp).unwrap_or(String::new())
Unwrap(middle) ==
  LET bytes == IF Base64Decode(middle).ok THEN Base64Decode(middle).bytes ELSE <<>>
  IN IF Utf8Decode(bytes).ok THEN Utf8Decode(bytes).text ELSE <<>>

from(text, sd) ==
  LET bs == Utf8Encode(text)
      n == Len(bs)
  IN IF n < 3 THEN ParseOrNone(text, sd)
     ELSE IF ~IsCharBoundary(bs, 2) THEN Panic
     ELSE IF SubSeq(bs, 1, 2) # <<98, 58>> THEN ParseOrNone(text, sd)
     ELSE IF ~IsCharBoundary(bs, n - 1) THEN Panic
     ELSE IF bs[n] # 58 THEN ParseOrNone(text, sd)
     ELSE ParseOrNone(Unwrap(SubSeq(bs, 3, n - 1)), sd)

\* "b:" + base64(t) + ":"
Envelope(text) == <<98, 58>> \o Base64Encode(Utf8Encode(text)) \o <<58>>

(***************************************************************************)
(* Derived operations of DataValue.                                        *)
(***************************************************************************)
\* if temp == f64::MAX { temp = 0_f64; }
Contribution(w) == IF FEq(w, F64Max(FALSE)) THEN Zero ELSE w

RECURSIVE weight(_)
RECURSIVE SumWeights(_, _)
\* total += temp over the items, in order.
SumWeights(items, total) ==
  IF Len(items) = 0 THEN total
  ELSE SumWeights(Tail(items), FAdd(total, Contribution(weight(Head(items)))))

weight(v) ==
  CASE v.tag = "Number" -> v.n
    [] v.tag = "List" -> SumWeights(v.l, Zero)
    [] v.tag = "Dict" -> SumWeights([i \in 1..Len(v.d) |-> v.d[i][2]], Zero)
    [] v.tag = "Tuple" -> SumWeights(<<v.t0, v.t1>>, Zero)
    [] OTHER -> F64Max(FALSE)

\* Ord::cmp: self.weight().partial_cmp(&other.weight()).unwrap_or(Equal)
cmp(x, y) ==
  IF FCompare(weight(x), weight(y)) = "None" THEN "Equal"
  ELSE FCompare(weight(x), weight(y))

RECURSIVE size(_)
RECURSIVE SumSizes(_)
SumSizes(items) ==
  IF Len(items) = 0 THEN 0 ELSE size(Head(items)) + SumSizes(Tail(items))

size(v) ==
  CASE v.tag = "None" -> 0
    [] v.tag = "String" -> Len(Utf8Encode(v.s))
    [] v.tag = "Number" -> 8
    [] v.tag = "Boolean" -> 1
    [] v.tag = "List" -> SumSizes(v.l)
    [] v.tag = "Dict" -> SumSizes([i \in 1..Len(v.d) |-> v.d[i][2]])
    [] v.tag = "Tuple" -> size(v.t0) + size(v.t1)
    [] v.tag = "Binary" -> Len(v.data)

(***************************************************************************)
(* Inputs.                                                                 *)
(***************************************************************************)
MaxRawLen == 3
MaxTokens == 4
MaxPieces == 2
MaxBinaryLen == 3
MaxWrap == 1
MaxSeed == 1
MaxListLen == 2
MaxStringLen == 2

Seqs(S, n) == UNION {[1..k -> S] : k \in 0..n}
Seeds == 0..MaxSeed

\* Short texts over  b : e-acute 1 " Q  (the envelope's own characters, a
\* two-byte character, and a base64 symbol).
RawTexts == Seqs({98, 58, 233, 49, 34, 81}, MaxRawLen)

\* Documents written with the grammar's tokens, well formed or not.
DocTokens ==
  { T(<<"[">>), T(<<"]">>), T(<<"(", "1">>), T(<<")">>), T(<<",", "1">>),
    T(<<"1">>), T(<<"{", "\"", "a", "\"", ":">>), T(<<"}">>) }
Documents == {Flatten(ts) : ts \in Seqs(DocTokens, MaxTokens)}

Scenarios ==
  { T(<<"[", "1", ",", " ", "2", ",", " ", "3", "]">>),
    T(<<"(", "t", "r", "u", "e", ",", "1", ")">>),
    T(<<"{", "\"", "a", "\"", ":", "1", ",", "\"", "b", "\"", ":", "2", "}">>),
    T(<<"g", "a", "r", "b", "a", "g", "e">>),
    T(<<" ", "[", " ", "1", " ", ",", "LF", "F", "A", "l", "s", "e", "TAB", "]", " ">>),
    T(<<"[", "[", "1", "]", ",", "t", "r", "u", "e", ",", "n", "o", "n", "e", "]">>) }

\* Composites one element of which is no value.
FailingElements == {T(<<"x">>), T(<<"n", "o", "n", "e">>), T(<<"(", "1", ")">>)}
BrokenComposites ==
  UNION { { T(<<"[">>) \o e \o T(<<"]">>),
            T(<<"[", "1", ",">>) \o e \o T(<<"]">>),
            T(<<"[", "[">>) \o e \o T(<<"]", "]">>),
            T(<<"(", "1", ",">>) \o e \o T(<<")">>),
            T(<<"(">>) \o e \o T(<<",", "1", ")">>),
            T(<<"{", "\"", "a", "\"", ":">>) \o e \o T(<<"}">>),
            T(<<"[", "{", "\"", "a", "\"", ":", "1", ",", "\"", "b", "\"", ":">>)
              \o e \o T(<<"}", "]">>) } : e \in FailingElements }

\* The pieces of a string body: normal characters and backslash escapes.
StringPieces ==
  { T(<<"a">>), T(<<" ">>), T(<<"\\", "n">>), T(<<"\\", "\"">>),
    T(<<"\\", "\\">>), T(<<"\\", "u", "0", "0", "E", "9">>) }
StringBodies == {Flatten(ps) : ps \in Seqs(StringPieces, MaxPieces)}
Quoted(body) == <<34>> \o body \o <<34>>
AsKey(body) == <<123>> \o Quoted(body) \o T(<<":", "1", "}">>)
StringTexts == {Quoted(b) : b \in StringBodies} \cup {AsKey(b) : b \in StringBodies}

BinaryLiteral(x) == T(<<"b", "i", "n", "a", "r", "y", "!", "(">>) \o x \o <<41>>
BinaryBodies == Seqs({65, 81, 103, 48}, MaxBinaryLen)
BinaryTexts == {BinaryLiteral(x) : x \in BinaryBodies}

Texts ==
  RawTexts \cup Documents \cup Scenarios \cup BrokenComposites
  \cup StringTexts \cup BinaryTexts

IsEnvelope(text) ==
  /\ Len(text) >= 3
  /\ SubSeq(text, 1, 2) = <<98, 58>>
  /\ text[Len(text)] = 58

RECURSIVE WrapDepth(_)
WrapDepth(text) ==
  IF IsEnvelope(text) /\ Len(text) > 3
  THEN 1 + WrapDepth(Unwrap(SubSeq(text, 3, Len(text) - 1)))
  ELSE 0

(***************************************************************************)
(* A caller of DataValue::from: it may wrap its text in the envelope, then *)
(* parses it, parses its envelope, and prints what it got.                 *)
(***************************************************************************)
Idle == Returned(NoneV)

InitParse ==
  /\ phase = "text"
  /\ data \in Texts
  /\ outcome = Idle /\ wrapped = Idle /\ printed = <<>>
  /\ value = NoneV /\ reparsed = Idle /\ remainder = <<>> /\ reprinted = <<>>
  /\ va = NoneV /\ vb = NoneV /\ vc = NoneV /\ wa = Zero
  /\ ab = "Equal" /\ bc = "Equal" /\ ac = "Equal" /\ ba = "Equal"

Wrap ==
  /\ phase = "text"
  /\ WrapDepth(data) < MaxWrap
  /\ from(data, 0).st = "ok"
  /\ from(data, 0).v # NoneV
  /\ data' = Envelope(data)
  /\ UNCHANGED <<phase, outcome, wrapped, value, printed, reparsed, remainder,
                 reprinted, va, vb, vc, wa, ab, bc, ac, ba>>

CallFrom ==
  /\ phase = "text"
  /\ \E sd \in Seeds : outcome' = from(data, sd)
  /\ phase' = "parsed"
  /\ UNCHANGED <<data, wrapped, value, printed, reparsed, remainder, reprinted,
                 va, vb, vc, wa, ab, bc, ac, ba>>

CallFromEnvelope ==
  /\ phase = "parsed"
  /\ outcome.st = "ok"
  /\ outcome.v # NoneV
  /\ \E sd \in Seeds : wrapped' = from(Envelope(data), sd)
  /\ phase' = "enveloped"
  /\ UNCHANGED <<data, outcome, value, printed, reparsed, remainder, reprinted,
                 va, vb, vc, wa, ab, bc, ac, ba>>

PrintOutcome ==
  /\ phase = "parsed"
  /\ outcome.st = "ok"
  /\ printed' = to_string(outcome.v)
  /\ phase' = "shown"
  /\ UNCHANGED <<data, outcome, wrapped, value, reparsed, remainder, reprinted,
                 va, vb, vc, wa, ab, bc, ac, ba>>

NextParse == Wrap \/ CallFrom \/ CallFromEnvelope \/ PrintOutcome

SpecParse == InitParse /\ [][NextParse]_vars

(***************************************************************************)
(* Properties of DataValue::from.                                          *)
(***************************************************************************)
Called == phase \in {"parsed", "enveloped", "shown"}

\* The same value, a Dict being the mapping it holds whatever order its
\* HashMap iterates it in.
RECURSIVE SameValue(_, _)
SameValue(x, y) ==
  IF x.tag # y.tag THEN FALSE
  ELSE IF x.tag = "List"
       THEN /\ Len(x.l) = Len(y.l)
            /\ \A i \in 1..Len(x.l) : SameValue(x.l[i], y.l[i])
  ELSE IF x.tag = "Tuple" THEN SameValue(x.t0, y.t0) /\ SameValue(x.t1, y.t1)
  ELSE IF x.tag = "Dict"
       THEN /\ Len(x.d) = Len(y.d)
            /\ \A i \in 1..Len(x.d) : \E j \in 1..Len(y.d) :
                 x.d[i][1] = y.d[j][1] /\ SameValue(x.d[i][2], y.d[j][2])
  ELSE x = y

RECURSIVE HoldsNone(_)
HoldsNone(v) ==
  IF v.tag = "None" THEN TRUE
  ELSE IF v.tag = "List" THEN \E i \in 1..Len(v.l) : HoldsNone(v.l[i])
  ELSE IF v.tag = "Dict" THEN \E i \in 1..Len(v.d) : HoldsNone(v.d[i][2])
  ELSE IF v.tag = "Tuple" THEN HoldsNone(v.t0) \/ HoldsNone(v.t1)
  ELSE FALSE

\* C1: DataValue::from is total: whatever the text, the call returns a
\* DataValue and never aborts.
C1_FromIsTotal == Called => outcome.st = "ok"

\* C3 as stated: whenever from(t) yields a value v other than None,
\* from("b:" + base64(t) + ":") yields v, for every t, a t of the envelope
\* form included.
C3_EnvelopeTransparency ==
  phase = "enveloped" => wrapped.st = "ok" /\ SameValue(wrapped.v, outcome.v)

\* C3 amended: for every t that is not itself of the envelope form, whenever
\* from(t) yields a value v other than None, from("b:" + base64(t) + ":")
\* yields v.
C3_EnvelopeTransparencyOfPlainText ==
  (phase = "enveloped" /\ ~IsEnvelope(data))
    => wrapped.st = "ok" /\ SameValue(wrapped.v, outcome.v)

C3_Witness ==
  /\ phase = "enveloped"
  /\ data = T(<<"{", "\"", "a", "\"", ":", "1", ",", "\"", "b", "\"", ":", "2", "}">>)
  /\ outcome.v.tag = "Dict"
  /\ wrapped.v # outcome.v
  /\ SameValue(wrapped.v, outcome.v)

\* C8: for every input quote + body + quote, body empty or made of normal
\* characters and backslash escapes, the parsed value is String(body); and
\* a Dict key written so is body.
C8_StringIsItsBody ==
  \A body \in StringBodies :
    /\ (Called /\ data = Quoted(body)) => outcome = Returned(StringV(body))
    /\ (Called /\ data = AsKey(body))
         => outcome = Returned(DictV(<< <<body, NumberV(Int2F(1))>> >>))

\* C9: for every input binary!(X), X a possibly empty run of ASCII
\* alphanumerics, from returns a Binary, never None: the base64 decoding of
\* X when X decodes, the empty blob (size 0, printed binary!()) when X is
\* empty or does not decode.
C9_BinaryLiteralFallback ==
  \A x \in BinaryBodies :
    (Called /\ data = BinaryLiteral(x)) =>
      /\ outcome.st = "ok"
      /\ outcome.v.tag = "Binary"
      /\ (Base64Decode(x).ok => outcome.v.data = Base64Decode(x).bytes)
      /\ (x = <<>> \/ ~Base64Decode(x).ok) =>
           /\ outcome.v.data = <<>>
           /\ size(outcome.v) = 0
           /\ (phase = "shown" => printed = BinaryLiteral(<<>>))

C9_Witness ==
  /\ phase = "shown"
  /\ data = BinaryLiteral(T(<<"Q">>))
  /\ ~Base64Decode(T(<<"Q">>)).ok
  /\ outcome = Returned(BinaryV(<<>>))
  /\ printed = BinaryLiteral(<<>>)

\* C10: the value from returns is None itself or holds no None at any
\* nested position; a composite with an element that is no value makes the
\* whole document None.
C10_NoneOnlyAtTopLevel ==
  (Called /\ outcome.st = "ok") =>
    /\ outcome.v = NoneV \/ ~HoldsNone(outcome.v)
    /\ data \in BrokenComposites => outcome.v = NoneV

C10_Witness ==
  /\ Called
  /\ data = T(<<"[", "1", ",", "n", "o", "n", "e", "]">>)
  /\ outcome = Returned(NoneV)

(***************************************************************************)
(* Printing a value and parsing the text again.                            *)
(***************************************************************************)
FiniteNumbers ==
  { Zero, Fin(TRUE, 0, 0), Int2F(1), Fin(TRUE, 15, -1), Fin(FALSE, 5, -2),
    Fin(FALSE, 1, 2), Fin(FALSE, 1225, -2) }

One == NumberV(Int2F(1))
Two == NumberV(Int2F(2))
Leaves == {One, NumberV(Fin(TRUE, 15, -1)), BooleanV(TRUE)}

ListsOf(S, n) == {ListV(l) : l \in Seqs(S, n)}
TuplesOf(S) == {TupleV(x, y) : x, y \in S}

Inner ==
  Leaves \cup { ListV(<<>>), ListV(<<One>>), TupleV(One, BooleanV(TRUE)),
                ListV(<<BooleanV(FALSE), NumberV(Fin(FALSE, 5, -2))>>) }

Deep ==
  { ListV(<<ListV(<<ListV(<<One>>)>>)>>),
    TupleV(ListV(<<TupleV(One, ListV(<<>>))>>), BooleanV(FALSE)) }

\* Values of Number (finite), Boolean, List and Tuple only.
PlainValues ==
  {NumberV(n) : n \in FiniteNumbers} \cup {BooleanV(b) : b \in BOOLEAN}
  \cup ListsOf(Leaves, MaxListLen) \cup TuplesOf(Leaves)
  \cup ListsOf(Inner, MaxListLen) \cup TuplesOf(Inner) \cup Deep

AB == << <<T(<<"a">>), One>>, <<T(<<"b">>), Two>> >>
BA == << <<T(<<"b">>), Two>>, <<T(<<"a">>), One>> >>

Dicts ==
  { DictV(<<>>), DictV(<< <<T(<<"a">>), One>> >>), DictV(AB), DictV(BA),
    DictV(<< <<T(<<"a">>), ListV(<<One>>)>>, <<T(<<"b">>), BooleanV(TRUE)>> >>),
    DictV(<< <<T(<<"c">>), DictV(AB)>> >>) }

Strings == {StringV(b) : b \in Seqs({97, 34, 92, 32}, MaxStringLen)}

Blobs == {BinaryV(b) : b \in Seqs({0, 65, 255}, MaxBinaryLen)}

OtherValues ==
  {NoneV} \cup Strings \cup Blobs \cup Dicts
  \cup { ListV(<<NoneV>>), ListV(<<DictV(AB), StringV(T(<<"a">>))>>),
         TupleV(StringV(T(<<"a">>)), BinaryV(<<65, 4, 16>>)),
         TupleV(NoneV, One) }

PrintValues == PlainValues \cup OtherValues

\* What ValueParser::parse leaves of the text it is given.
Rest(text, sd) ==
  IF parse(text, 1, sd).r = "ok" THEN Drop(text, parse(text, 1, sd).i - 1)
  ELSE text

InitPrint ==
  /\ phase = "value"
  /\ value \in PrintValues
  /\ data = <<>>
  /\ outcome = Idle /\ wrapped = Idle /\ reparsed = Idle
  /\ printed = <<>> /\ remainder = <<>> /\ reprinted = <<>>
  /\ va = NoneV /\ vb = NoneV /\ vc = NoneV
  /\ wa = Zero
  /\ ab = "Equal" /\ bc = "Equal" /\ ac = "Equal" /\ ba = "Equal"

\* value.to_string()
CallToString ==
  /\ phase = "value"
  /\ printed' = to_string(value)
  /\ phase' = "printed"
  /\ UNCHANGED <<data, outcome, wrapped, value, reparsed, remainder, reprinted,
                 va, vb, vc, wa, ab, bc, ac, ba>>

\* DataValue::from(printed)
CallFromPrinted ==
  /\ phase = "printed"
  /\ \E sd \in Seeds :
       /\ reparsed' = from(printed, sd)
       /\ remainder' = Rest(printed, sd)
  /\ phase' = "reparsed"
  /\ UNCHANGED <<data, outcome, wrapped, value, printed, reprinted,
                 va, vb, vc, wa, ab, bc, ac, ba>>

\* The re-parsed value's to_string()
CallToStringAgain ==
  /\ phase = "reparsed"
  /\ reparsed.st = "ok"
  /\ reprinted' = to_string(reparsed.v)
  /\ phase' = "reprinted"
  /\ UNCHANGED <<data, outcome, wrapped, value, printed, reparsed, remainder,
                 va, vb, vc, wa, ab, bc, ac, ba>>

NextPrint == CallToString \/ CallFromPrinted \/ CallToStringAgain

SpecPrint == InitPrint /\ [][NextPrint]_vars

Reparsed == phase \in {"reparsed", "reprinted"}

\* Built of Number (finite), Boolean, List and Tuple only.
RECURSIVE Plain(_)
Plain(v) ==
  IF v.tag = "Number" THEN v.n.k = "fin"
  ELSE IF v.tag = "Boolean" THEN TRUE
  ELSE IF v.tag = "List" THEN \A i \in 1..Len(v.l) : Plain(v.l[i])
  ELSE IF v.tag = "Tuple" THEN Plain(v.t0) /\ Plain(v.t1)
  ELSE FALSE

\* C2: for every value built only of finite Numbers, Booleans, Lists and
\* Tuples, from(v.to_string()) is structurally v and the parser consumes the
\* whole printed text.
C2_ParsePrintRoundTrip ==
  (Reparsed /\ Plain(value)) => reparsed = Returned(value) /\ remainder = <<>>

C2_Witness ==
  /\ Reparsed
  /\ value = TupleV(ListV(<<TupleV(One, ListV(<<>>))>>), BooleanV(FALSE))
  /\ printed = T(<<"(", "[", "(", "1", ",", "[", "]", ")", "]", ",",
                   "f", "a", "l", "s", "e", ")">>)
  /\ reparsed = Returned(value)
  /\ remainder = <<>>

\* C4: for every value of any variant, printing, parsing and printing again
\* gives the first printed text.
C4_PrintIdempotence ==
  Reparsed => reparsed.st = "ok" /\ to_string(reparsed.v) = printed

\* C7: for every Dict d of two or more entries, the Dict re-parsed from d's
\* printed text is == to d, whatever order each of the two maps iterates in.
C7_DictRoundTrip ==
  (Reparsed /\ value.tag = "Dict" /\ Len(value.d) >= 2) =>
    reparsed.st = "ok" /\ reparsed.v.tag = "Dict" /\ Eq(reparsed.v, value)

(***************************************************************************)
(* Weighing and ordering values.                                           *)
(***************************************************************************)
NaN == NumberV(F64NaN)
Most == NumberV(F64Max(FALSE))

WeighedItems ==
  { One, NumberV(Fin(TRUE, 15, -1)), Most, NaN, NoneV, StringV(T(<<"a">>)),
    BooleanV(TRUE) }

WeighedValues ==
  { One, Two, NaN, Most, NumberV(F64Max(TRUE)), NumberV(F64Inf(FALSE)),
    NumberV(Fin(TRUE, 15, -1)), NoneV, StringV(T(<<"a">>)), BooleanV(TRUE),
    BinaryV(<<65>>) }
  \cup ListsOf(WeighedItems, MaxListLen) \cup TuplesOf(WeighedItems)
  \cup { DictV(AB), DictV(BA), DictV(<< <<T(<<"a">>), StringV(T(<<"b">>))>> >>),
         DictV(<< <<T(<<"a">>), Most>> >>),
         ListV(<<ListV(<<One, Two>>), One>>),
         ListV(<<ListV(<<Most>>), Two>>),
         ListV(<<TupleV(NoneV, BooleanV(FALSE)), ListV(<<>>)>>),
         TupleV(DictV(AB), ListV(<<Two, StringV(T(<<"a">>))>>)) }

ComparedValues == {One, Two, NaN, StringV(T(<<"a">>)), ListV(<<One, One>>)}

InitWeight ==
  /\ phase = "values"
  /\ va \in WeighedValues
  /\ vb \in ComparedValues
  /\ vc \in ComparedValues
  /\ wa = Zero
  /\ ab = "Equal" /\ bc = "Equal" /\ ac = "Equal" /\ ba = "Equal"
  /\ data = <<>> /\ value = NoneV
  /\ outcome = Idle /\ wrapped = Idle /\ reparsed = Idle
  /\ printed = <<>> /\ remainder = <<>> /\ reprinted = <<>>

\* va.weight()
CallWeight ==
  /\ phase = "values"
  /\ wa' = weight(va)
  /\ phase' = "weighed"
  /\ UNCHANGED <<data, outcome, wrapped, value, printed, reparsed, remainder,
                 reprinted, va, vb, vc, ab, bc, ac, ba>>

\* va.cmp(&vb), vb.cmp(&vc), va.cmp(&vc) and vb.cmp(&va)
CallCmp ==
  /\ phase = "weighed"
  /\ ab' = cmp(va, vb)
  /\ bc' = cmp(vb, vc)
  /\ ac' = cmp(va, vc)
  /\ ba' = cmp(vb, va)
  /\ phase' = "compared"
  /\ UNCHANGED <<data, outcome, wrapped, value, printed, reparsed, remainder,
                 reprinted, va, vb, vc, wa>>

NextWeight == CallWeight \/ CallCmp

SpecWeight == InitWeight /\ [][NextWeight]_vars

\* total plus the Numbers v holds, directly or through nested composites,
\* in order; every other leaf adds nothing.
RECURSIVE PlusNumbers(_, _)
RECURSIVE PlusNumbersOfAll(_, _)
PlusNumbersOfAll(items, total) ==
  IF Len(items) = 0 THEN total
  ELSE PlusNumbersOfAll(Tail(items), PlusNumbers(Head(items), total))

PlusNumbers(v, total) ==
  IF v.tag = "Number" THEN FAdd(total, v.n)
  ELSE IF v.tag = "List" THEN PlusNumbersOfAll(v.l, total)
  ELSE IF v.tag = "Dict"
       THEN PlusNumbersOfAll([i \in 1..Len(v.d) |-> v.d[i][2]], total)
  ELSE IF v.tag = "Tuple" THEN PlusNumbersOfAll(<<v.t0, v.t1>>, total)
  ELSE total

\* C5: the weight of a List, Dict or Tuple is the sum of the Numbers it
\* holds, whatever representable value they have, every other leaf adding 0.
C5_WeightIsSumOfNumbers ==
  (phase \in {"weighed", "compared"} /\ va.tag \in {"List", "Dict", "Tuple"})
    => wa = PlusNumbers(va, Zero)

Reverse(o) ==
  IF o = "Less" THEN "Greater" ELSE IF o = "Greater" THEN "Less" ELSE o

\* C6: cmp is total modulo ties over all values, those of NaN weight
\* included: cmp(a,a) is Equal, cmp(a,b) is the reverse of cmp(b,a), cmp is
\* transitive, also through Equal, and on two Numbers it is the numeric order.
C6_CmpIsTotalModuloTies ==
  phase = "compared" =>
    /\ cmp(va, va) = "Equal"
    /\ ab = Reverse(ba)
    /\ (ab = "Equal" /\ bc = "Equal") => ac = "Equal"
    /\ (ab = "Less" /\ bc \in {"Less", "Equal"}) => ac = "Less"
    /\ (ab = "Equal" /\ bc = "Less") => ac = "Less"
    /\ (va.tag = "Number" /\ vb.tag = "Number" /\ FCompare(va.n, vb.n) # "None")
         => ab = FCompare(va.n, vb.n)

====
